---- MODULE Spec2Model ----
(***************************************************************************)
(* A model of readabilityrs' post-extraction cleaning (post_processor.rs), *)
(* its quick readerable check (readerable.rs) and the orchestrator's       *)
(* flag-relaxation retry loop.                                             *)
(*                                                                         *)
(* Markup is a sequence of tokens.  A token is a whole tag ("<h1>",        *)
(* "</h1>", "<!--", ...) or one character of text ("a", "A", " ").  The    *)
(* patterns of the source never match a part of a tag, so matching on      *)
(* tokens is matching on the text.                                         *)
(***************************************************************************)
EXTENDS Integers, Sequences, FiniteSets, TLC

VARIABLES
    pc,            \* position of the running entry point
    html,          \* the `html` argument / working copy
    title,         \* the `title` argument of remove_title_from_content
    heading_text,  \* the text of one heading (titles_match's second input)
    result,        \* the value returned
    entry,         \* the cleaning function called: prep_article or
                   \* remove_empty_paragraphs
    input,         \* the markup the cleaning function was called with
    passes,        \* passes of remove_empty_paragraphs' loop that removed
                   \* something, in the current call
    calls,         \* calls of the cleaning function so far (the second
                   \* call is on the result of the first)
    prev,          \* the result of the first call, once there is a second
    doc,           \* is_probably_readerable: the elements of the document
    min_content_length,   \* options.min_content_length
    min_score,     \* options.min_score
    paragraphs,    \* the elements selected by "p, pre, article"
    idx,           \* the place of `p` in paragraphs (the for loop)
    score,         \* the running score
    flags,         \* retry loop: the flags that are on
    attempt,       \* the number of the current attempt, from 0
    attempt_flags, \* the flags each attempt so far ran with
    text_length,   \* the text length the current attempt produced
    best_length,   \* the longest text any attempt produced
    char_threshold,       \* options.char_threshold
    found_article  \* the "found article" override signal

vars ==
    <<pc, html, title, heading_text, result, entry, input, passes, calls, prev,
      doc, min_content_length, min_score, paragraphs, idx, score,
      flags, attempt, attempt_flags, text_length, best_length, char_threshold,
      found_article>>

\* the variables the title functions use
titleVars == <<title, heading_text>>
\* the variables only the cleaning functions use
prepVars == <<entry, input, passes, calls, prev>>

NoResult == "none"

\* the variables only is_probably_readerable uses
readerableVars == <<doc, min_content_length, min_score, paragraphs, idx, score>>
\* the variables only the retry loop uses
retryVars ==
    <<flags, attempt, attempt_flags, text_length, best_length, char_threshold,
      found_article>>

ReaderableIdle ==
    /\ doc = <<>>
    /\ min_content_length = 0
    /\ min_score = 0
    /\ paragraphs = <<>>
    /\ idx = 0
    /\ score = 0

RetryIdle ==
    /\ flags = {}
    /\ attempt = 0
    /\ attempt_flags = <<>>
    /\ text_length = 0
    /\ best_length = 0
    /\ char_threshold = 0
    /\ found_article = FALSE

\* the cleaning functions are not running
PrepIdle ==
    entry = "" /\ input = <<>> /\ passes = 0 /\ calls = 0 /\ prev = <<>>

-----------------------------------------------------------------------------
(* Sequence helpers (str::contains, str::find, string slicing).            *)

Min(a, b) == IF a < b THEN a ELSE b
Max(a, b) == IF a < b THEN b ELSE a

\* s with the positions from..to removed: html[..pos] + html[pos+len..]
DeleteRange(s, from, to) == SubSeq(s, 1, from - 1) \o SubSeq(s, to + 1, Len(s))

\* str::contains on two token sequences
Contains(hay, needle) ==
    \E i \in 0..(Len(hay) - Len(needle)) :
        SubSeq(hay, i + 1, i + Len(needle)) = needle

\* str::find: the first position at which needle occurs in hay, 0 for None
Find(hay, needle) ==
    LET hits == {i \in 1..(Len(hay) - Len(needle) + 1) :
                    SubSeq(hay, i, i + Len(needle) - 1) = needle}
    IN  IF hits = {} THEN 0 ELSE CHOOSE i \in hits : \A j \in hits : i <= j

-----------------------------------------------------------------------------
(* normalize_text and titles_match                                         *)

IsWs(c) == c = " "

ToLowerChar(c) == CASE c = "A" -> "a" [] c = "B" -> "b" [] OTHER -> c

RECURSIVE TrimStart(_)
TrimStart(s) == IF s # <<>> /\ IsWs(Head(s)) THEN TrimStart(Tail(s)) ELSE s

RECURSIVE TrimEnd(_)
TrimEnd(s) ==
    IF s # <<>> /\ IsWs(s[Len(s)]) THEN TrimEnd(SubSeq(s, 1, Len(s) - 1)) ELSE s

\* str::trim
Trim(s) == TrimEnd(TrimStart(s))

\* Regex \s+ replaced by one space: a whitespace character is kept (as " ")
\* only where it starts a run.
RECURSIVE CollapseWs(_)
CollapseWs(s) ==
    IF s = <<>> THEN <<>>
    ELSE IF IsWs(Head(s))
         THEN <<" ">> \o CollapseWs(TrimStart(s))
         ELSE <<Head(s)>> \o CollapseWs(Tail(s))

ToLowercase(s) == [i \in 1..Len(s) |-> ToLowerChar(s[i])]

normalize_text(text) == ToLowercase(CollapseWs(Trim(text)))

\* ratio > 0.8 with ratio = min/max in f64.  For lengths below 2^50 the
\* rounded quotient exceeds the rounded 0.8 exactly when 5*min > 4*max.
RatioAbove80(len1, len2) == 5 * Min(len1, len2) > 4 * Max(len1, len2)

RatioAtLeast80(len1, len2) == 5 * Min(len1, len2) >= 4 * Max(len1, len2)

titles_match(title1, title2) ==
    \/ title1 = title2
    \/ /\ Len(title1) > 0
       /\ Len(title2) > 0
       /\ RatioAbove80(Len(title1), Len(title2))
       /\ (Contains(title1, title2) \/ Contains(title2, title1))

-----------------------------------------------------------------------------
(* Html::parse_fragment + select("h1, h2"), on the markup the model draws: *)
(* comments, headings spelled in either case, paragraphs, text.            *)

HeadingOpens == {"<h1>", "<h2>", "<H1>", "<H2>"}
HeadingCloses == {"</h1>", "</h2>", "</H1>", "</H2>"}

\* the tokenizer lower-cases tag names
TagName(t) == CASE t \in {"<h1>", "<H1>"} -> "h1"
                [] t \in {"<h2>", "<H2>"} -> "h2"
                [] OTHER -> "?"

OpenTag(name) == IF name = "h1" THEN "<h1>" ELSE "<h2>"
CloseTag(name) == IF name = "h1" THEN "</h1>" ELSE "</h2>"

\* the first position >= i whose token is in S, Len(h)+1 if none
FirstIn(h, i, S) ==
    LET hits == {j \in i..Len(h) : h[j] \in S}
    IN  IF hits = {} THEN Len(h) + 1
        ELSE CHOOSE j \in hits : \A k \in hits : j <= k

IsTextChar(t) == t \in {"a", "b", "A", "B", " "}

\* The h1/h2 elements of the parsed fragment in document order.  Of each:
\* its tag name, its text (element.text().collect()), its serialization
\* (element.html(): lower-case tag names) and, for the properties only, the
\* positions from..to of the markup it was parsed from.
RECURSIVE SelectHeadings(_, _)
SelectHeadings(h, i) ==
    IF i > Len(h) THEN <<>>
    ELSE IF h[i] = "<!--"
         THEN SelectHeadings(h, FirstIn(h, i + 1, {"-->"}) + 1)
    ELSE IF h[i] \in HeadingOpens
         THEN LET j     == FirstIn(h, i + 1, HeadingCloses)
                  inner == SubSeq(h, i + 1, j - 1)
                  name  == TagName(h[i])
              IN  << [tag  |-> name,
                      text |-> SelectSeq(inner, IsTextChar),
                      html |-> <<OpenTag(name)>> \o inner \o <<CloseTag(name)>>,
                      from |-> i,
                      to   |-> Min(j, Len(h))] >>
                  \o SelectHeadings(h, j + 1)
    ELSE SelectHeadings(h, i + 1)

-----------------------------------------------------------------------------
(* remove_title_from_content                                               *)

\* The loop over doc.select(): the first element, from the k-th on, that
\* matches the title and whose serialization is found in html, as
\* <<pos, len>>; <<0, 0>> when the loop ends without a removal.
RECURSIVE TitleRemoval(_, _, _, _)
TitleRemoval(h, els, k, normalized_title) ==
    IF k > Len(els) THEN <<0, 0>>
    ELSE LET normalized_element_text == normalize_text(els[k].text)
             element_html == els[k].html
             pos == Find(h, element_html)
         IN  IF titles_match(normalized_title, normalized_element_text) /\ pos # 0
             THEN <<pos, Len(element_html)>>
             ELSE TitleRemoval(h, els, k + 1, normalized_title)

\* (mutant) the loop entered without the check for an empty normalized title
TitleRemovalUnguarded(h, t) ==
    TitleRemoval(h, SelectHeadings(h, 1), 1, normalize_text(t))

\* the early return on an empty normalized title, then the loop
TitleRemovalGuarded(h, t) ==
    IF normalize_text(t) = <<>> THEN <<0, 0>>
    ELSE TitleRemoval(h, SelectHeadings(h, 1), 1, normalize_text(t))

remove_title_from_content(h, t) ==
    LET r == TitleRemovalGuarded(h, t)
    IN  IF r[1] = 0 THEN h ELSE DeleteRange(h, r[1], r[1] + r[2] - 1)

-----------------------------------------------------------------------------
(* Inputs of the title functions                                           *)

MaxBlocks == 3      \* blocks of markup in one document
MaxShortText == 3   \* length of the texts drawn from every character
MaxWordLen == 6     \* length of the longest one-word text

Chars == {"a", "b", "A", " "}

SeqsUpTo(S, n) == UNION {[1..k -> S] : k \in 0..n}

\* "aaaa", "aaab", ...: n letters, all "a" but perhaps the last
Word(n, last) == [i \in 1..n |-> IF i = n THEN last ELSE "a"]

\* texts for titles_match: every short text, and words long enough for the
\* length ratio to fall on either side of 0.8
MatchTexts ==
    SeqsUpTo(Chars, MaxShortText)
        \cup {Word(n, last) : n \in 4..MaxWordLen, last \in {"a", "b"}}

TitleTexts == {<<>>, <<" ">>, <<"a">>, <<"A", " ">>, <<"b">>}
HeadingTexts == {<<>>, <<"a">>, <<" ", "A">>, <<"b">>}

HeadingSpellings ==
    {<<"<h1>", "</h1>">>, <<"<H1>", "</H1>">>, <<"<h2>", "</h2>">>}

Blocks ==
    {<<sp[1]>> \o t \o <<sp[2]>> : sp \in HeadingSpellings, t \in HeadingTexts}
        \cup {<<"<p>", "a", "</p>">>}
        \cup {<<"<!--", "<h1>", "a", "</h1>", "-->">>}

RECURSIVE Flatten(_)
Flatten(bs) == IF bs = <<>> THEN <<>> ELSE Head(bs) \o Flatten(Tail(bs))

TitleDocs == {Flatten(bs) : bs \in SeqsUpTo(Blocks, MaxBlocks)}

-----------------------------------------------------------------------------
(* remove_title_from_content(html, title)                                  *)

InitTitle ==
    /\ pc = "rt_start"
    /\ html \in TitleDocs
    /\ title \in TitleTexts
    /\ heading_text = <<>>
    /\ result = NoResult
    /\ PrepIdle
    /\ ReaderableIdle
    /\ RetryIdle

RemoveTitleFromContent ==
    /\ pc = "rt_start"
    /\ result' = remove_title_from_content(html, title)
    /\ pc' = "rt_done"
    /\ UNCHANGED <<html, title, heading_text, prepVars, readerableVars, retryVars>>

NextTitle == RemoveTitleFromContent

SpecTitle == InitTitle /\ [][NextTitle]_vars

(* titles_match(normalize_text(title), normalize_text(heading text))       *)

InitMatch ==
    /\ pc = "tm_start"
    /\ html = <<>>
    /\ title \in MatchTexts
    /\ heading_text \in MatchTexts
    /\ result = NoResult
    /\ PrepIdle
    /\ ReaderableIdle
    /\ RetryIdle

TitlesMatch ==
    /\ pc = "tm_start"
    /\ result' = titles_match(normalize_text(title), normalize_text(heading_text))
    /\ pc' = "tm_done"
    /\ UNCHANGED <<html, title, heading_text, prepVars, readerableVars, retryVars>>

NextMatch == TitlesMatch

SpecMatch == InitMatch /\ [][NextMatch]_vars

-----------------------------------------------------------------------------
(* Properties of title deduplication                                       *)

Headings(h) == SelectHeadings(h, 1)

HeadingMatches(e, t) ==
    titles_match(normalize_text(t), normalize_text(e.text))

MatchingHeadings(h, t) ==
    {k \in 1..Len(Headings(h)) : HeadingMatches(Headings(h)[k], t)}

\* the spans from..to of the <p> elements of h
ParagraphSpans(h) ==
    {<<i, j>> \in (1..Len(h)) \X (1..Len(h)) :
        /\ h[i] = "<p>"
        /\ j = FirstIn(h, i, {"</p>"})}

\* the markup title deduplication has to keep: every paragraph and every
\* heading that does not match the title
KeptSpans(h, t) ==
    ParagraphSpans(h)
        \cup {<<Headings(h)[k].from, Headings(h)[k].to>> :
                k \in (1..Len(Headings(h))) \ MatchingHeadings(h, t)}

\* C1: remove_title_from_content removes at most one heading: its result is
\* the input unchanged or the input without the markup of exactly one heading
\* element.
C1_AtMostOneHeadingRemoved ==
    pc = "rt_done" =>
        \/ result = html
        \/ \E k \in 1..Len(Headings(html)) :
              result = DeleteRange(html, Headings(html)[k].from, Headings(html)[k].to)

\* C2: when remove_title_from_content removes something, it is the markup of
\* the first heading in document order whose normalized text matches the
\* title.
C2_FirstMatchingHeadingRemoved ==
    (pc = "rt_done" /\ result # html) =>
        /\ MatchingHeadings(html, title) # {}
        /\ LET k == CHOOSE k \in MatchingHeadings(html, title) :
                        \A m \in MatchingHeadings(html, title) : k <= m
               e == Headings(html)[k]
           IN  result = DeleteRange(html, e.from, e.to)

\* C3: remove_title_from_content returns its input unchanged when the title
\* is empty after normalization or no heading matches it, and in every case
\* keeps each paragraph and each non-matching heading: what it deletes is one
\* range of the markup that overlaps none of them.
C3_UnchangedWithoutMatch ==
    pc = "rt_done" =>
        /\ (normalize_text(title) = <<>> \/ MatchingHeadings(html, title) = {})
              => result = html
        /\ \/ result = html
           \/ \E from \in 1..Len(html) : \E to \in from..Len(html) :
                /\ result = DeleteRange(html, from, to)
                /\ \A sp \in KeptSpans(html, title) : sp[2] < from \/ to < sp[1]

\* a run with an empty normalized title over markup holding a heading whose
\* normalized text is empty too, and a paragraph
C3_Witness ==
    /\ pc = "rt_done"
    /\ normalize_text(title) = <<>>
    /\ \E k \in 1..Len(Headings(html)) :
          normalize_text(Headings(html)[k].text) = <<>>
    /\ ParagraphSpans(html) # {}
    /\ result = html

\* C4: a heading matches the title when the normalized texts are equal, or
\* one contains the other and shorter/longer is at least 80% (4 against 5
\* included); otherwise it does not.
C4_MatchIffRatioAtLeast80 ==
    pc = "tm_done" =>
        LET n1 == normalize_text(title)
            n2 == normalize_text(heading_text)
        IN  result = (\/ n1 = n2
                      \/ /\ Contains(n1, n2) \/ Contains(n2, n1)
                         /\ RatioAtLeast80(Len(n1), Len(n2)))

-----------------------------------------------------------------------------
(* The cleaning pipeline works on markup whose tokens are records: a start *)
(* tag (k = "open"; k = "void" for a start tag that has no end tag, such   *)
(* as <input>), an end tag (k = "close"), a run of text (k = "text") or of *)
(* whitespace (k = "ws").  tag is the name as spelled in the markup, class *)
(* and id the values of these attributes ("" when absent).  pos is the     *)
(* place of the token in the markup the function was called with: the      *)
(* patterns never read it, and every replacement only deletes tokens, so   *)
(* it tells where a token of the output comes from.                        *)

Open(tag, class, id) == [k |-> "open", tag |-> tag, class |-> class, id |-> id]
Void(tag) == [k |-> "void", tag |-> tag, class |-> "", id |-> ""]
Close(tag) == [k |-> "close", tag |-> tag, class |-> "", id |-> ""]
TextTok == [k |-> "text", tag |-> "", class |-> "", id |-> ""]
WsTok == [k |-> "ws", tag |-> "", class |-> "", id |-> ""]

\* the (?i) flag: tag names compared in lower case
Lower(tag) == CASE tag = "P" -> "p" [] OTHER -> tag

\* keyword occurs in the attribute value (the [^"]*?keyword[^"]*? of the
\* patterns), on the attribute values of the model
KeywordIn(keyword, value) ==
    <<keyword, value>> \in {<<"menu", "menu">>, <<"share", "share">>,
                            <<"header", "header">>}

\* A pattern <tag ...>.*?</tag>: the tag name, the attribute that must hold
\* one of the keywords ("none": no attribute is looked at), and whether the
\* start tag alone is an alternative (<embed>, <input>, <link>).
Pattern(tag, attr, keywords, alone) ==
    [tag |-> tag, attr |-> attr, keywords |-> keywords, alone |-> alone]

\* the token matches the start-tag part of the pattern
Opens(tok, pat) ==
    /\ tok.k \in {"open", "void"}
    /\ Lower(tok.tag) = pat.tag
    /\ \/ pat.attr = "none"
       \/ pat.attr = "class" /\ \E kw \in pat.keywords : KeywordIn(kw, tok.class)
       \/ pat.attr = "id" /\ \E kw \in pat.keywords : KeywordIn(kw, tok.id)

\* the token matches the </tag> of the pattern
Closes(tok, pat) == tok.k = "close" /\ Lower(tok.tag) = pat.tag

\* the first position >= i whose token closes the pattern, Len(h)+1 if none
FirstClose(h, i, pat) ==
    LET hits == {j \in i..Len(h) : Closes(h[j], pat)}
    IN  IF hits = {} THEN Len(h) + 1
        ELSE CHOOSE j \in hits : \A m \in hits : j <= m

\* Regex::replace_all(h, "") from position i on: the leftmost match starts at
\* the first start tag the pattern accepts that has an end tag after it,
\* and, .*? being lazy, ends at the first such end tag; the search goes on
\* after the match.
RECURSIVE ReplaceAllFrom(_, _, _)
ReplaceAllFrom(h, i, pat) ==
    IF i > Len(h) THEN <<>>
    ELSE IF Opens(h[i], pat)
         THEN LET j == FirstClose(h, i + 1, pat)
              IN  IF j <= Len(h) THEN ReplaceAllFrom(h, j + 1, pat)
                  ELSE IF pat.alone THEN ReplaceAllFrom(h, i + 1, pat)
                  ELSE <<h[i]>> \o ReplaceAllFrom(h, i + 1, pat)
    ELSE <<h[i]>> \o ReplaceAllFrom(h, i + 1, pat)

ReplaceAll(h, pat) == ReplaceAllFrom(h, 1, pat)

\* result = re.replace_all(&result, "") for each pattern in turn
RECURSIVE ReplaceEach(_, _)
ReplaceEach(h, pats) ==
    IF pats = <<>> THEN h ELSE ReplaceEach(ReplaceAll(h, Head(pats)), Tail(pats))

\* <div[^>]+class="[^"]*(?:navbar|nav|menu|sidebar|widget|header)[^"]*"[^>]*>.*?</div>
WRAPPER_REGEX ==
    Pattern("div", "class",
            {"navbar", "nav", "menu", "sidebar", "widget", "header"}, FALSE)

unwrap_nav_wrappers(h) == ReplaceAll(h, WRAPPER_REGEX)

UnwantedTags ==
    <<"form", "fieldset", "footer", "aside", "object", "embed", "iframe",
      "input", "textarea", "select", "button", "link">>

\* the tags whose pattern has the alternative <tag ...> without an end tag
AloneTags == {"embed", "input", "link"}

UnwantedPatterns ==
    [n \in 1..Len(UnwantedTags) |->
        Pattern(UnwantedTags[n], "none", {}, UnwantedTags[n] \in AloneTags)]

remove_unwanted_elements(h) == ReplaceEach(h, UnwantedPatterns)

\* for tag in tags { for keyword in keywords { class pattern; id pattern } }
KeywordPatterns(tags, keywords) ==
    [n \in 1..(Len(tags) * Len(keywords) * 2) |->
        Pattern(tags[((n - 1) \div (2 * Len(keywords))) + 1],
                IF (n - 1) % 2 = 0 THEN "class" ELSE "id",
                {keywords[(((n - 1) \div 2) % Len(keywords)) + 1]},
                FALSE)]

ShareTags == <<"div", "span", "aside", "section">>
ShareKeywords == <<"share", "social", "sharedaddy">>

remove_share_elements(h) ==
    ReplaceEach(h, KeywordPatterns(ShareTags, ShareKeywords))

NAV_REGEX == Pattern("nav", "none", {}, FALSE)
NavTags == <<"div", "section", "ul", "ol">>
NavKeywords == <<"nav", "navbar", "menu", "breadcrumbs">>

remove_navigation_elements(h) ==
    ReplaceEach(ReplaceAll(h, NAV_REGEX), KeywordPatterns(NavTags, NavKeywords))

\* EMPTY_P_REGEX <p[^>]*?>\s*</p> has no (?i) flag: a start tag whose name,
\* as spelled, begins with a lower-case p ...
EmptyPOpens(tok) ==
    tok.k = "open" /\ tok.tag \in {"p", "pre", "param", "picture"}

\* ... and the end tag </p> as spelled
EmptyPCloses(tok) == tok.k = "close" /\ tok.tag = "p"

\* the first position >= i whose token is not whitespace, Len(h)+1 if none
FirstNonWs(h, i) ==
    LET hits == {j \in i..Len(h) : h[j].k # "ws"}
    IN  IF hits = {} THEN Len(h) + 1
        ELSE CHOOSE j \in hits : \A m \in hits : j <= m

\* EMPTY_P_REGEX.replace_all(h, "") from position i on
RECURSIVE EmptyPReplaceFrom(_, _)
EmptyPReplaceFrom(h, i) ==
    IF i > Len(h) THEN <<>>
    ELSE IF EmptyPOpens(h[i])
         THEN LET j == FirstNonWs(h, i + 1)
              IN  IF j <= Len(h) /\ EmptyPCloses(h[j])
                  THEN EmptyPReplaceFrom(h, j + 1)
                  ELSE <<h[i]>> \o EmptyPReplaceFrom(h, i + 1)
    ELSE <<h[i]>> \o EmptyPReplaceFrom(h, i + 1)

\* one pass of the loop: new_html
EmptyPPass(h) == EmptyPReplaceFrom(h, 1)

\* (mutant) the loop without its break
LoopBreaksNever(new_html, old_html) == FALSE

\* if new_html == html { break; }
LoopBreaks(new_html, old_html) == new_html = old_html

-----------------------------------------------------------------------------
(* Inputs of the cleaning functions: well-formed markup of depth two       *)

MaxKids == 2        \* children of the outermost element

\* the start tags of the elements drawn
StartTags ==
    { Open("div", "", ""), Open("div", "menu", ""), Open("div", "share", ""),
      Open("div", "header", ""), Open("ul", "", "menu"), Open("aside", "", ""),
      Open("nav", "", ""), Open("p", "", ""), Open("P", "", ""),
      Open("span", "", ""), Open("h1", "", "") }

\* the start tags of the elements drawn inside another element
InnerStartTags ==
    { Open("div", "", ""), Open("div", "share", ""), Open("aside", "", ""),
      Open("p", "", ""), Open("span", "", ""), Open("h1", "", "") }

Leaves == {<<>>, <<TextTok>>, <<WsTok>>, <<Void("input")>>}
InnerLeaves == {<<>>, <<TextTok>>, <<WsTok>>}

Element(start, content) == <<start>> \o content \o <<Close(start.tag)>>

Level1 ==
    Leaves \cup {Element(st, l) : st \in InnerStartTags, l \in InnerLeaves}

Level2 ==
    {Element(st, Flatten(kids)) : st \in StartTags, kids \in SeqsUpTo(Level1, MaxKids)}

\* the markup with each token's place recorded in it
Numbered(h) ==
    [i \in 1..Len(h) |->
        [k |-> h[i].k, tag |-> h[i].tag, class |-> h[i].class, id |-> h[i].id,
         pos |-> i]]

PrepDocs == {Numbered(h) : h \in Level2}

-----------------------------------------------------------------------------
(* prep_article(html) and remove_empty_paragraphs(html)                    *)

InitPrep ==
    /\ entry \in {"prep_article", "remove_empty_paragraphs"}
    /\ input \in PrepDocs
    /\ html = input
    /\ pc = IF entry = "prep_article" THEN "unwrap" ELSE "empty_p"
    /\ passes = 0
    /\ calls = 1
    /\ prev = <<>>
    /\ result = NoResult
    /\ title = <<>>
    /\ heading_text = <<>>
    /\ ReaderableIdle
    /\ RetryIdle

UnwrapNavWrappers ==
    /\ pc = "unwrap"
    /\ html' = unwrap_nav_wrappers(html)
    /\ pc' = "unwanted"
    /\ UNCHANGED <<result, titleVars, prepVars, readerableVars, retryVars>>

RemoveUnwantedElements ==
    /\ pc = "unwanted"
    /\ html' = remove_unwanted_elements(html)
    /\ pc' = "share"
    /\ UNCHANGED <<result, titleVars, prepVars, readerableVars, retryVars>>

RemoveShareElements ==
    /\ pc = "share"
    /\ html' = remove_share_elements(html)
    /\ pc' = "navigation"
    /\ UNCHANGED <<result, titleVars, prepVars, readerableVars, retryVars>>

RemoveNavigationElements ==
    /\ pc = "navigation"
    /\ html' = remove_navigation_elements(html)
    /\ pc' = "empty_p"
    /\ UNCHANGED <<result, titleVars, prepVars, readerableVars, retryVars>>

\* a pass of remove_empty_paragraphs' loop after which the loop goes on
EmptyParagraphsPass ==
    /\ pc = "empty_p"
    /\ ~LoopBreaks(EmptyPPass(html), html)
    /\ html' = EmptyPPass(html)
    /\ passes' = passes + 1
    /\ UNCHANGED <<pc, result, titleVars, entry, input, calls, prev,
                   readerableVars, retryVars>>

\* (mutant) no loop: what one pass leaves is returned
EmptyParagraphsOnePass ==
    /\ pc = "empty_p"
    /\ result' = EmptyPPass(html)
    /\ pc' = "done"
    /\ UNCHANGED <<html, titleVars, prepVars, readerableVars, retryVars>>

\* the pass that breaks the loop: remove_empty_paragraphs returns html, and
\* so does prep_article
EmptyParagraphsReturn ==
    /\ pc = "empty_p"
    /\ LoopBreaks(EmptyPPass(html), html)
    /\ result' = html
    /\ pc' = "done"
    /\ UNCHANGED <<html, titleVars, prepVars, readerableVars, retryVars>>

\* remove_empty_paragraphs called again, on what it returned
EmptyParagraphsAgain ==
    /\ pc = "done"
    /\ entry = "remove_empty_paragraphs"
    /\ calls = 1
    /\ calls' = 2
    /\ prev' = result
    /\ html' = result
    /\ result' = NoResult
    /\ passes' = 0
    /\ pc' = "empty_p"
    /\ UNCHANGED <<titleVars, entry, input, readerableVars, retryVars>>

NextPrep ==
    \/ UnwrapNavWrappers
    \/ RemoveUnwantedElements
    \/ RemoveShareElements
    \/ RemoveNavigationElements
    \/ EmptyParagraphsPass
    \/ EmptyParagraphsReturn
    \/ EmptyParagraphsAgain

SpecPrep == InitPrep /\ [][NextPrep]_vars

\* remove_empty_paragraphs runs its loop to the end: a pass that can be made
\* is made
SpecPrepLive ==
    SpecPrep /\ WF_vars(EmptyParagraphsPass \/ EmptyParagraphsReturn)

-----------------------------------------------------------------------------
(* Properties of the cleaning pipeline.  Elements are those of the markup  *)
(* the function was called with (well-formed: every start tag but a void   *)
(* one has its end tag).                                                   *)

\* the position of the end tag that closes the element open at depth 0 when
\* the scan is at j; Len(h)+1 if there is none
RECURSIVE CloseOf(_, _, _)
CloseOf(h, j, depth) ==
    IF j > Len(h) THEN Len(h) + 1
    ELSE IF h[j].k = "open" THEN CloseOf(h, j + 1, depth + 1)
    ELSE IF h[j].k = "close"
         THEN IF depth = 0 THEN j ELSE CloseOf(h, j + 1, depth - 1)
    ELSE CloseOf(h, j + 1, depth)

\* the last position of the element whose start tag is at i
ElementEnd(h, i) == IF h[i].k = "void" THEN i ELSE CloseOf(h, i + 1, 0)

\* the positions of the elements that start at one of starts: their tags and
\* all of their content
Covered(h, starts) ==
    {n \in 1..Len(h) : \E i \in starts : i <= n /\ n <= ElementEnd(h, i)}

NeverArticleTags ==
    {"form", "fieldset", "footer", "aside", "object", "embed", "iframe",
     "input", "textarea", "select", "button", "link"}

NeverArticleStarts(h) ==
    {i \in 1..Len(h) :
        h[i].k \in {"open", "void"} /\ Lower(h[i].tag) \in NeverArticleTags}

SignalKeywords ==
    {"share", "social", "sharedaddy", "nav", "navbar", "menu", "breadcrumbs"}

\* nav elements and elements whose class or id signals a share/social widget
\* or a navigation/menu/breadcrumb structure
SignalStarts(h) ==
    {i \in 1..Len(h) :
        /\ h[i].k = "open"
        /\ \/ Lower(h[i].tag) = "nav"
           \/ \E kw \in SignalKeywords :
                 KeywordIn(kw, h[i].class) \/ KeywordIn(kw, h[i].id)}

\* the places, in the markup of the call, of the tokens of h
Origins(h) == {h[n].pos : n \in 1..Len(h)}

\* the paragraphs of h with no text and no embedded media in them
EmptyParagraphs(h) ==
    {i \in 1..Len(h) :
        /\ h[i].k = "open"
        /\ Lower(h[i].tag) = "p"
        /\ ElementEnd(h, i) <= Len(h)
        /\ Lower(h[ElementEnd(h, i)].tag) = "p"
        /\ \A n \in i..ElementEnd(h, i) :
              /\ h[n].k # "text"
              /\ Lower(h[n].tag) \notin {"img", "embed", "object", "iframe", "video"}}

\* C5: after prep_article nothing is left of a form, fieldset, footer, aside,
\* object, embed, iframe, input, textarea, select, button or link element:
\* no tag of it and none of its content, nested elements of the same name
\* included.
C5_NeverArticleElementsGone ==
    (pc = "done" /\ entry = "prep_article") =>
        Origins(result) \cap Covered(input, NeverArticleStarts(input)) = {}

\* C6: after prep_article nothing is left of a nav element or of an element
\* whose class or id signals a share/social widget or a navigation, menu or
\* breadcrumb structure, also when it wraps blocks of its own tag.
C6_SignalledElementsGone ==
    (pc = "done" /\ entry = "prep_article") =>
        Origins(result) \cap Covered(input, SignalStarts(input)) = {}

\* C7: after prep_article, and after remove_empty_paragraphs alone, no
\* paragraph without text and without embedded media is left.
C7_NoEmptyParagraphLeft ==
    pc = "done" => EmptyParagraphs(result) = {}

\* C8: remove_empty_paragraphs applied to its own result returns it
\* unchanged.
C8_EmptyParagraphsIdempotent ==
    (pc = "done" /\ entry = "remove_empty_paragraphs" /\ calls = 2) =>
        result = prev

\* the second call has returned, after a first call that needed more than one
\* pass (an empty paragraph inside another)
C8_Witness ==
    /\ pc = "done"
    /\ entry = "remove_empty_paragraphs"
    /\ calls = 2
    /\ prev # EmptyPPass(input)
    /\ Len(prev) < Len(input)

\* the elements the cleaning pipeline is meant to remove: the never-article
\* tags, the nav elements and the elements with a share/social or a
\* navigation/menu/breadcrumb class or id
MeantToRemove(h) == Covered(h, NeverArticleStarts(h) \cup SignalStarts(h))

BlockTags == {"p", "h1", "h2", "h3", "h4", "h5", "h6"}

\* the paragraphs of h that are empty once the elements meant to be removed
\* are taken out of them: no text and no embedded media is left in them
EmptiedParagraphs(h) ==
    {i \in 1..Len(h) :
        /\ h[i].k = "open"
        /\ Lower(h[i].tag) = "p"
        /\ \A n \in i..Min(ElementEnd(h, i), Len(h)) :
              n \notin MeantToRemove(h) =>
                 /\ h[n].k # "text"
                 /\ Lower(h[n].tag) \notin {"img", "embed", "object", "iframe", "video"}}

\* the headings and paragraphs of h that are not empty paragraphs and are
\* not inside an element meant to be removed
ContentBlocks(h) ==
    {i \in 1..Len(h) :
        /\ h[i].k = "open"
        /\ Lower(h[i].tag) \in BlockTags
        /\ i \notin EmptiedParagraphs(h)
        /\ i \notin MeantToRemove(h)}

\* the tags and the content of the block at i, without what is inside an
\* element meant to be removed or inside an empty paragraph
BlockTokens(h, i) ==
    {n \in i..ElementEnd(h, i) :
        /\ n \notin MeantToRemove(h)
        /\ n \notin Covered(h, EmptiedParagraphs(h))}

\* C11: prep_article keeps every heading and paragraph that is not an empty
\* paragraph and is not inside an element the pipeline is meant to remove:
\* its tags and its text are in the output, as they were and in their
\* original order.
C11_ContentBlocksKept ==
    (pc = "done" /\ entry = "prep_article") =>
        /\ \A i \in ContentBlocks(input) :
              BlockTokens(input, i) \subseteq Origins(result)
        /\ \A n \in 1..Len(result) : result[n] = input[result[n].pos]
        /\ \A m, n \in 1..Len(result) : m < n => result[m].pos < result[n].pos

\* the markup the running call of remove_empty_paragraphs was given
LoopInput == IF calls = 2 THEN prev ELSE input

\* the paragraphs the loop has removed so far: the start tags EMPTY_P_REGEX
\* accepts that were in the markup of the call and are no longer in html
RemovedParagraphs ==
    Cardinality({n \in 1..Len(LoopInput) :
                    /\ EmptyPOpens(LoopInput[n])
                    /\ LoopInput[n].pos \notin Origins(html)})

\* C12: the loop of remove_empty_paragraphs terminates: a pass that changes
\* the markup makes it strictly shorter; the passes that changed it are no
\* more than the empty paragraphs removed (so the pass that changes nothing
\* is at most one pass later); and the function, once in its loop, returns.
C12_EmptyParagraphsLoopTerminates ==
    /\ [][EmptyParagraphsPass => Len(html') < Len(html)]_vars
    /\ []((entry = "remove_empty_paragraphs" /\ pc \in {"empty_p", "done"}) =>
             passes <= RemovedParagraphs)
    /\ (pc = "empty_p" ~> pc = "done")

\* remove_empty_paragraphs has returned after two passes that changed the
\* markup and the one that did not
C12_Witness ==
    /\ pc = "done"
    /\ entry = "remove_empty_paragraphs"
    /\ calls = 1
    /\ passes >= 2

-----------------------------------------------------------------------------
(* is_probably_readerable(html, options)                                   *)
(*                                                                         *)
(* The parsed document is the sequence of its elements in document order,  *)
(* each with its tag name and its text.  The score is an f64; the model    *)
(* keeps it in fixed point, in units of 1/Scale.                           *)

Scale == 100        \* the score is kept in hundredths

\* the largest r with r * r <= n
ISqrt(n) == CHOOSE r \in 0..(n + 1) : r * r <= n /\ (r + 1) * (r + 1) > n

\* (n as f64).sqrt(), in units of 1/Scale
Sqrt(n) == ISqrt(n * Scale * Scale)

\* Selector::parse("p, pre, article")
Selected(el) == el.tag \in {"p", "pre", "article"}

\* document.select(&p_selector).collect()
SelectParagraphs(d) == SelectSeq(d, Selected)

\* text.trim().len()
TextLen(el) == Len(Trim(el.text))

\* (mutant) no element is skipped
SkippedNever(text_len, min_len) == FALSE

\* (mutant) an element as long as min_content_length is skipped too
SkippedOrEqual(text_len, min_len) == text_len <= min_len

\* if text_len < options.min_content_length { continue; }
Skipped(text_len, min_len) == text_len < min_len

UsizeBits == 4      \* the width of usize in the model

UsizeModulus == 2 ^ UsizeBits

\* text_len - options.min_content_length on usize: below zero the
\* difference wraps (a build with overflow checks panics instead)
WrappingSub(a, b) == (a - b) % UsizeModulus

\* ((text_len - options.min_content_length) as f64).sqrt()
Contribution(text_len, min_len) == Sqrt(WrappingSub(text_len, min_len))

\* score > options.min_score
Exceeds(s, min) == s > min

MaxElements == 2           \* elements of one document
MaxMinContentLength == 2   \* the largest min_content_length drawn

\* min_score: negative, zero and positive values (in units of 1/Scale)
MinScores == {-Scale, 0, Scale, 2 * Scale}

ReaderableTexts ==
    {<<" ">>, <<" ", "a">>, <<"a", "a">>, <<"a", " ", "a", "a">>}

ReaderableElements ==
    {[tag |-> g, text |-> t] : g \in {"p", "pre", "article", "div"},
                               t \in ReaderableTexts}

ReaderableDocs == SeqsUpTo(ReaderableElements, MaxElements)

InitReaderable ==
    /\ pc = "ir_select"
    /\ doc \in ReaderableDocs
    /\ min_content_length \in 0..MaxMinContentLength
    /\ min_score \in MinScores
    /\ paragraphs = <<>>
    /\ idx = 0
    /\ score = 0
    /\ result = NoResult
    /\ html = <<>>
    /\ title = <<>>
    /\ heading_text = <<>>
    /\ PrepIdle
    /\ RetryIdle

\* if paragraphs.is_empty() { return false; }
ReturnNoParagraphs ==
    /\ pc = "ir_select"
    /\ SelectParagraphs(doc) = <<>>
    /\ result' = FALSE
    /\ pc' = "ir_done"
    /\ UNCHANGED <<html, titleVars, prepVars, readerableVars, retryVars>>

\* let mut score = 0.0; for p in paragraphs {
EnterLoop ==
    /\ pc = "ir_select"
    /\ SelectParagraphs(doc) # <<>>
    /\ paragraphs' = SelectParagraphs(doc)
    /\ idx' = 1
    /\ score' = 0
    /\ pc' = "ir_loop"
    /\ UNCHANGED <<html, result, titleVars, prepVars, doc, min_content_length,
                   min_score, retryVars>>

\* continue
SkipElement ==
    /\ pc = "ir_loop"
    /\ idx <= Len(paragraphs)
    /\ Skipped(TextLen(paragraphs[idx]), min_content_length)
    /\ idx' = idx + 1
    /\ UNCHANGED <<pc, html, result, titleVars, prepVars, doc, min_content_length,
                   min_score, paragraphs, score, retryVars>>

\* score += ...; the score does not exceed min_score: the next element
AddToScore ==
    /\ pc = "ir_loop"
    /\ idx <= Len(paragraphs)
    /\ ~Skipped(TextLen(paragraphs[idx]), min_content_length)
    /\ score' = score + Contribution(TextLen(paragraphs[idx]), min_content_length)
    /\ ~Exceeds(score', min_score)
    /\ idx' = idx + 1
    /\ UNCHANGED <<pc, html, result, titleVars, prepVars, doc, min_content_length,
                   min_score, paragraphs, retryVars>>

\* score += ...; if score > options.min_score { return true; }
ReturnTrue ==
    /\ pc = "ir_loop"
    /\ idx <= Len(paragraphs)
    /\ ~Skipped(TextLen(paragraphs[idx]), min_content_length)
    /\ score' = score + Contribution(TextLen(paragraphs[idx]), min_content_length)
    /\ Exceeds(score', min_score)
    /\ result' = TRUE
    /\ pc' = "ir_done"
    /\ UNCHANGED <<html, titleVars, prepVars, doc, min_content_length, min_score,
                   paragraphs, idx, retryVars>>

\* the loop is over: false
ReturnFalse ==
    /\ pc = "ir_loop"
    /\ idx > Len(paragraphs)
    /\ result' = FALSE
    /\ pc' = "ir_done"
    /\ UNCHANGED <<html, titleVars, prepVars, readerableVars, retryVars>>

NextReaderable ==
    \/ ReturnNoParagraphs
    \/ EnterLoop
    \/ SkipElement
    \/ AddToScore
    \/ ReturnTrue
    \/ ReturnFalse

SpecReaderable == InitReaderable /\ [][NextReaderable]_vars

-----------------------------------------------------------------------------
(* Properties of is_probably_readerable                                    *)

\* the sum, over those of the first n elements of els that are at least
\* as long as floor, of the square roots of text length - min_len
RECURSIVE RunningTotal(_, _, _, _)
RunningTotal(els, n, floor, min_len) ==
    IF n = 0 THEN 0
    ELSE RunningTotal(els, n - 1, floor, min_len)
            + (IF TextLen(els[n]) >= floor
               THEN Sqrt(TextLen(els[n]) - min_len) ELSE 0)

\* C9 as stated: false whenever no p/pre/article element is strictly longer
\* than min_content_length (an element exactly that long does not qualify),
\* and true only if the running total of the qualifying elements, in
\* document order, exceeds min_score.
C9_StrictlyLongerQualifies ==
    pc = "ir_done" =>
        LET els == SelectParagraphs(doc)
            longer == {n \in 1..Len(els) : TextLen(els[n]) > min_content_length}
        IN  /\ longer = {} => result = FALSE
            /\ result = TRUE =>
                 \E n \in longer :
                    RunningTotal(els, n, min_content_length + 1, min_content_length)
                        > min_score

\* C9 (amended): false whenever no p/pre/article element is at least as long
\* as min_content_length; an element exactly that long qualifies; the result
\* is true exactly when the running total of the qualifying elements, in
\* document order, exceeds min_score at one of them.
C9_AtLeastAsLongQualifies ==
    pc = "ir_done" =>
        LET els == SelectParagraphs(doc)
            qualifying == {n \in 1..Len(els) : TextLen(els[n]) >= min_content_length}
        IN  /\ qualifying = {} => result = FALSE
            /\ result = (\E n \in qualifying :
                            RunningTotal(els, n, min_content_length, min_content_length)
                                > min_score)

\* true is returned for a document none of whose elements is longer than
\* min_content_length: one exactly that long qualified
C9_Witness ==
    /\ pc = "ir_done"
    /\ result = TRUE
    /\ \A n \in 1..Len(paragraphs) : TextLen(paragraphs[n]) <= min_content_length

\* C13: the subtraction text_len - min_content_length is evaluated only for
\* an element with text_len >= min_content_length, so it does not go below
\* zero and what is added is the square root of the true difference; the
\* score never decreases from one step of the loop to the next.
C13_SubtractionNeverUnderflows ==
    [][ /\ (AddToScore \/ ReturnTrue) =>
             /\ TextLen(paragraphs[idx]) >= min_content_length
             /\ score' - score =
                   Sqrt(TextLen(paragraphs[idx]) - min_content_length)
        /\ score' >= score ]_vars

\* true is returned at the second selected element or later, after a first
\* element shorter than min_content_length was skipped and a positive
\* difference was added
C13_Witness ==
    /\ pc = "ir_done"
    /\ result = TRUE
    /\ idx >= 2
    /\ TextLen(paragraphs[1]) < min_content_length
    /\ score > 0

-----------------------------------------------------------------------------
(* The retry loop of the extraction orchestrator                           *)
(*                                                                         *)
(* One parse runs attempts over the original tree.  An attempt is seen     *)
(* here by the flags it ran with and the plain-text length it measured;    *)
(* the measured length is an input of the loop.                            *)

MaxThreshold == 3     \* the largest char_threshold drawn
MaxTextLength == 3    \* the largest plain-text length an attempt measures

\* the flags, in the order in which they are relaxed
FlagOrder == <<"strip-unlikely-candidates", "weight-classes", "clean-conditionally">>

AllFlags == {FlagOrder[n] : n \in 1..Len(FlagOrder)}

\* (mutant) the last flag still on, in the fixed order
LastFlagOn(fs) ==
    FlagOrder[CHOOSE n \in 1..Len(FlagOrder) :
                /\ FlagOrder[n] \in fs
                /\ \A m \in (n + 1)..Len(FlagOrder) : FlagOrder[m] \notin fs]

\* the flag to relax: the first one still on, in the fixed order
NextFlag(fs) ==
    FlagOrder[CHOOSE n \in 1..Len(FlagOrder) :
                /\ FlagOrder[n] \in fs
                /\ \A m \in 1..(n - 1) : FlagOrder[m] \notin fs]

\* the length reaches char_threshold, or the override signal is present
Accepted(len, threshold, override) == len >= threshold \/ override

InitRetry ==
    /\ pc = "rl_attempt"
    /\ flags = AllFlags
    /\ attempt = 0
    /\ attempt_flags = <<>>
    /\ text_length = 0
    /\ best_length = 0
    /\ char_threshold \in 1..MaxThreshold
    /\ found_article \in BOOLEAN
    /\ result = NoResult
    /\ html = <<>>
    /\ title = <<>>
    /\ heading_text = <<>>
    /\ PrepIdle
    /\ ReaderableIdle

\* run the attempt with the current flags; measure the plain-text length
RunAttempt ==
    /\ pc = "rl_attempt"
    /\ \E len \in 0..MaxTextLength :
          /\ text_length' = len
          /\ best_length' = Max(best_length, len)
    /\ attempt_flags' = Append(attempt_flags, flags)
    /\ pc' = "rl_measured"
    /\ UNCHANGED <<html, result, titleVars, prepVars, readerableVars, flags,
                   attempt, char_threshold, found_article>>

\* accept and stop
Accept ==
    /\ pc = "rl_measured"
    /\ Accepted(text_length, char_threshold, found_article)
    /\ result' = "accepted"
    /\ pc' = "rl_done"
    /\ UNCHANGED <<html, titleVars, prepVars, readerableVars, retryVars>>

\* relax exactly one flag and retry
RelaxFlag ==
    /\ pc = "rl_measured"
    /\ ~Accepted(text_length, char_threshold, found_article)
    /\ flags # {}
    /\ flags' = flags \ {NextFlag(flags)}
    /\ attempt' = attempt + 1
    /\ pc' = "rl_attempt"
    /\ UNCHANGED <<html, result, titleVars, prepVars, readerableVars, attempt_flags,
                   text_length, best_length, char_threshold, found_article>>

\* all flags are off and the threshold is unmet: the best attempt
AcceptBest ==
    /\ pc = "rl_measured"
    /\ ~Accepted(text_length, char_threshold, found_article)
    /\ flags = {}
    /\ best_length > 0
    /\ result' = "accepted-best"
    /\ pc' = "rl_done"
    /\ UNCHANGED <<html, titleVars, prepVars, readerableVars, retryVars>>

\* the best attempt has no usable content: article not found
ArticleNotFound ==
    /\ pc = "rl_measured"
    /\ ~Accepted(text_length, char_threshold, found_article)
    /\ flags = {}
    /\ best_length = 0
    /\ result' = "article-not-found"
    /\ pc' = "rl_done"
    /\ UNCHANGED <<html, titleVars, prepVars, readerableVars, retryVars>>

NextRetry ==
    \/ RunAttempt
    \/ Accept
    \/ RelaxFlag
    \/ AcceptBest
    \/ ArticleNotFound

SpecRetry == InitRetry /\ [][NextRetry]_vars

-----------------------------------------------------------------------------
(* Properties of the retry loop                                            *)

\* C10: the flags are relaxed monotonically across the attempts of one
\* parse: the first attempt has every flag on; every later attempt's flags
\* are the previous attempt's with exactly one more flag off, the flags
\* going off in the order strip-unlikely-candidates, weight-classes,
\* clean-conditionally; and a flag that is off in one attempt is off in
\* every later attempt.
C10_FlagsRelaxedMonotonically ==
    /\ Len(attempt_flags) >= 1 => attempt_flags[1] = AllFlags
    /\ \A k \in 2..Len(attempt_flags) :
          /\ attempt_flags[k] \subseteq attempt_flags[k - 1]
          /\ attempt_flags[k - 1] \ attempt_flags[k] = {FlagOrder[k - 1]}
    /\ \A j \in 1..Len(attempt_flags) : \A k \in j..Len(attempt_flags) :
          attempt_flags[k] \subseteq attempt_flags[j]

\* a parse that relaxed every flag: four attempts, the last with no flag on
C10_Witness ==
    /\ pc = "rl_done"
    /\ Len(attempt_flags) = 4
    /\ attempt_flags[4] = {}

====
